---------------------------- MODULE Spec2Model ----------------------------
(***************************************************************************)
(* maysh-rs: one run of the prompt program (src/src/main.rs).              *)
(*                                                                         *)
(* Text is a sequence of one-character strings, so that trimming, prefix   *)
(* stripping and formatting are computed character by character.  Colours  *)
(* (owo_colors) add escape codes around a segment and are left out.        *)
(***************************************************************************)
EXTENDS Naturals, Sequences, FiniteSets, TLC

VARIABLES
    pc,       \* position of the run in main / git
    repo,     \* whether gix::discover(".") finds a repository
    HEAD,     \* the repository's HEAD reference
    fs,       \* the entries under the metadata directory (repo.path())
    odb,      \* the ids of the objects in the object database
    usr,      \* main: let usr
    cwd,      \* Dir::cwd
    branch,   \* git: let branch (a Head)
    mode,     \* git: what Mode::new gave (result, panic, paths probed)
    string,   \* git: let mut string
    stdout,   \* what the process has printed
    exit,     \* "running", then "success" (main returned) or "panic"
    text,     \* resolver check: the reference text handed to hash
    first,    \* resolver check: hash(text)
    second    \* resolver check: hash applied to what hash returned

vars == <<pc, repo, HEAD, fs, odb, usr, cwd, branch, mode, string, stdout,
          exit, text, first, second>>

---------------------------------------------------------------------------
(* Bounds of the model *)

\* at most this many of the six marker groups hold an entry
MaxActive == 2

---------------------------------------------------------------------------
(* Option / Result, and a call that may panic *)

None == <<>>
Some(x) == <<x>>
Err == <<>>
Ok(x) == <<x>>
IsSome(o) == Len(o) = 1
unwrap(o) == o[1]

Returned(v) == [panic |-> FALSE, val |-> Some(v)]
Panicked == [panic |-> TRUE, val |-> None]

---------------------------------------------------------------------------
(* Text *)

Whitespace == {" ", "\n", "\t"}

RECURSIVE trim_end(_)
trim_end(s) ==
    IF s = <<>> THEN s
    ELSE IF s[Len(s)] \in Whitespace THEN trim_end(SubSeq(s, 1, Len(s) - 1))
    ELSE s

RECURSIVE trim_start(_)
trim_start(s) ==
    IF s = <<>> THEN s
    ELSE IF s[1] \in Whitespace THEN trim_start(Tail(s))
    ELSE s

trim(s) == trim_start(trim_end(s))

\* String::truncate(trimmed.len()) on the string itself
trim_in_place(s) == SubSeq(s, 1, Len(trim_end(s)))

starts_with(s, p) == Len(p) <= Len(s) /\ SubSeq(s, 1, Len(p)) = p

strip_prefix(s, p) ==
    IF starts_with(s, p) THEN Some(SubSeq(s, Len(p) + 1, Len(s))) ELSE None

refs_heads == <<"r","e","f","s","/","h","e","a","d","s","/">>

---------------------------------------------------------------------------
(* The object database and gix's resolver.  Ids are three characters long *)

HexChars == {"a", "b"}

Ids == { <<x, y, z>> : x \in HexChars, y \in HexChars, z \in HexChars }

Matching(db, t) == { x \in db : t /= <<>> /\ starts_with(x, t) }

\* Repository::rev_parse_single on a hex prefix: exactly one object or Err
rev_parse_single(db, t) ==
    IF Cardinality(Matching(db, t)) = 1
    THEN Ok(CHOOSE x \in Matching(db, t) : TRUE)
    ELSE Err

\* Id::shorten: the shortest prefix of an object's id that no other object
\* shares; Err for an id that is not in the database
shorten(db, id) ==
    IF id \notin db THEN Err
    ELSE LET n == CHOOSE k \in 1..Len(id) :
                    /\ Matching(db, SubSeq(id, 1, k)) = {id}
                    /\ \A j \in 1..(k - 1) : Matching(db, SubSeq(id, 1, j)) /= {id}
         IN  Ok(SubSeq(id, 1, n))

\* FullNameRef::shorten: the name without its refs/heads/ namespace
name_shorten(name) ==
    IF starts_with(name, refs_heads) THEN unwrap(strip_prefix(name, refs_heads))
    ELSE name

---------------------------------------------------------------------------
(* rel, hash *)

rel(db, rev) ==
    IF shorten(db, rev) = Err THEN Panicked
    ELSE Returned(unwrap(shorten(db, rev)))

\* fault model for C10: the reference text is not trimmed
hash_untrimmed(db, h) ==
    LET r == rev_parse_single(db, h)
    IN  IF r = Err THEN Panicked ELSE rel(db, unwrap(r))

hash(db, h) ==
    LET t == trim(h)
        r == rev_parse_single(db, t)
    IN  IF r = Err THEN Panicked ELSE rel(db, unwrap(r))

---------------------------------------------------------------------------
(* Head *)

Branch(name) == [tag |-> "Branch", s |-> name]
Commit(prefix) == [tag |-> "Commit", s |-> prefix]

Unreadable_HEAD == [kind |-> "unreadable", name |-> <<>>, id |-> <<>>]
Symbolic(n) == [kind |-> "symbolic", name |-> n, id |-> <<>>]
Detached(i) == [kind |-> "detached", name |-> <<>>, id |-> i]

\* repo.head(): Err when the HEAD reference cannot be read
repo_head(h) == IF h.kind = "unreadable" THEN Err ELSE Ok(h)

\* head.referent_name(): the name HEAD points at, None when detached
referent_name(h) == IF h.kind = "symbolic" THEN Some(h.name) ELSE None

\* head.id(): the commit a detached HEAD holds
head_id(h) == IF h.kind = "detached" THEN Some(h.id) ELSE None

\* fault model for C7: the full reference name as the branch
Head_new_fullName(db, h) ==
    IF repo_head(h) = Err THEN Panicked
    ELSE LET head == unwrap(repo_head(h))
         IN  IF IsSome(referent_name(head))
             THEN Returned(Branch(unwrap(referent_name(head))))
             ELSE IF ~IsSome(head_id(head)) THEN Panicked
             ELSE LET r == rel(db, unwrap(head_id(head)))
                  IN  IF r.panic THEN Panicked
                      ELSE Returned(Commit(unwrap(r.val)))

Head_new(db, h) ==
    IF repo_head(h) = Err THEN Panicked
    ELSE LET head == unwrap(repo_head(h))
         IN  IF IsSome(referent_name(head))
             THEN Returned(Branch(name_shorten(unwrap(referent_name(head)))))
             ELSE IF ~IsSome(head_id(head)) THEN Panicked
             ELSE LET r == rel(db, unwrap(head_id(head)))
                  IN  IF r.panic THEN Panicked
                      ELSE Returned(Commit(unwrap(r.val)))

\* fault model for C9: a detached head without its colon
Head_fmt_noColon(h) == h.s

Head_fmt(h) ==
    IF h.tag = "Branch" THEN h.s ELSE <<":">> \o h.s

---------------------------------------------------------------------------
(* The metadata directory: what std::path and std::fs answer for a path *)

Absent == [kind |-> "absent", text |-> <<>>]
NoAccess == [kind |-> "noaccess", text |-> <<>>]      \* the stat itself fails
Directory == [kind |-> "dir", text |-> <<>>]
Unreadable == [kind |-> "unreadable", text |-> <<>>]  \* a file; reading it fails
File(t) == [kind |-> "file", text |-> t]

\* Path::is_file: the metadata says regular file; false when the stat fails
is_file(f, p) == f[p].kind \in {"file", "unreadable"}

\* Path::is_dir
is_dir(f, p) == f[p].kind = "dir"

\* fault model for C3: a read that does not tell a failed read from an
\* empty file
read_to_string_or_default(f, p) ==
    IF f[p].kind \in {"file", "unreadable"} THEN Ok(f[p].text) ELSE Err

\* std::fs::read_to_string
read_to_string(f, p) == IF f[p].kind = "file" THEN Ok(f[p].text) ELSE Err

---------------------------------------------------------------------------
(* Status, Mode *)

Status(n, e) == [num |-> n, end |-> e]

Status_fmt(st) == st.num \o <<"/">> \o st.end

ApplyMailbox == [tag |-> "ApplyMailbox"]
Rebase == [tag |-> "Rebase"]
AmRbs == [tag |-> "AmRbs"]
RebaseInt(b, st) == [tag |-> "RebaseInt", head |-> b, status |-> st]
Bisect(b) == [tag |-> "Bisect", start |-> b]
Merge(h) == [tag |-> "Merge", hash |-> h]
CherryPick(h) == [tag |-> "CherryPick", hash |-> h]
Revert(h) == [tag |-> "Revert", hash |-> h]

\* what a call of Mode::new did: panicked, or returned val (an Option<Mode>),
\* after probing the paths in probed
ModeReturned(v, P) == [panic |-> FALSE, val |-> Some(v), probed |-> P]
ModePanicked(P) == [panic |-> TRUE, val |-> None, probed |-> P]

\* fault model for C4: the branch name keeps its trailing whitespace
RebaseInt_branch_untrimmed(db, f) ==
    LET hn == read_to_string(f, "rebase-merge/head-name")
        oh == read_to_string(f, "rebase-merge/orig-head")
    IN  IF hn /= Err /\ IsSome(strip_prefix(unwrap(hn), refs_heads))
        THEN ModeReturned(
                 Branch(unwrap(strip_prefix(unwrap(hn), refs_heads))),
                 {"rebase-merge/head-name"})
        ELSE IF oh /= Err
        THEN IF hash(db, unwrap(oh)).panic
             THEN ModePanicked({"rebase-merge/head-name", "rebase-merge/orig-head"})
             ELSE ModeReturned(Commit(unwrap(hash(db, unwrap(oh)).val)),
                               {"rebase-merge/head-name", "rebase-merge/orig-head"})
        ELSE [panic |-> FALSE, val |-> None,
              probed |-> {"rebase-merge/head-name", "rebase-merge/orig-head"}]

\* lines 97-107: let branch
RebaseInt_branch(db, f) ==
    LET hn == read_to_string(f, "rebase-merge/head-name")
        oh == read_to_string(f, "rebase-merge/orig-head")
    IN  IF hn /= Err /\ IsSome(strip_prefix(unwrap(hn), refs_heads))
        THEN ModeReturned(
                 Branch(trim_end(unwrap(strip_prefix(unwrap(hn), refs_heads)))),
                 {"rebase-merge/head-name"})
        ELSE IF oh /= Err
        THEN IF hash(db, unwrap(oh)).panic
             THEN ModePanicked({"rebase-merge/head-name", "rebase-merge/orig-head"})
             ELSE ModeReturned(Commit(unwrap(hash(db, unwrap(oh)).val)),
                               {"rebase-merge/head-name", "rebase-merge/orig-head"})
        ELSE [panic |-> FALSE, val |-> None,
              probed |-> {"rebase-merge/head-name", "rebase-merge/orig-head"}]

\* fault model for C5: a progress as soon as msgnum is readable, the
\* missing end left empty
RebaseInt_status_either(f) ==
    LET num == read_to_string(f, "rebase-merge/msgnum")
        end == read_to_string(f, "rebase-merge/end")
    IN  IF num = Err
        THEN [val |-> None, probed |-> {"rebase-merge/msgnum"}]
        ELSE [val |-> Some(Status(trim_in_place(unwrap(num)),
                                  IF end = Err THEN <<>>
                                  ELSE trim_in_place(unwrap(end)))),
              probed |-> {"rebase-merge/msgnum", "rebase-merge/end"}]

\* lines 109-119: let status
RebaseInt_status(f) ==
    LET num == read_to_string(f, "rebase-merge/msgnum")
        end == read_to_string(f, "rebase-merge/end")
    IN  IF num = Err
        THEN [val |-> None, probed |-> {"rebase-merge/msgnum"}]
        ELSE IF end = Err
        THEN [val |-> None, probed |-> {"rebase-merge/msgnum", "rebase-merge/end"}]
        ELSE [val |-> Some(Status(trim_in_place(unwrap(num)),
                                  trim_in_place(unwrap(end)))),
              probed |-> {"rebase-merge/msgnum", "rebase-merge/end"}]

\* fault model for C2: a marker whose content does not resolve is passed over
Marker_skip(db, sha, variant, P) ==
    IF hash(db, sha).panic THEN ModeReturned(None, P)
    ELSE ModeReturned(
             Some([tag |-> variant, hash |-> unwrap(hash(db, sha).val)]), P)

\* lines 128-136: a marker file that was read: hash its content
Marker(db, sha, variant, P) ==
    IF hash(db, sha).panic THEN ModePanicked(P)
    ELSE ModeReturned(
             Some([tag |-> variant, hash |-> unwrap(hash(db, sha).val)]), P)

\* lines 94-139: the checks after the three of rebase-apply
Mode_tail(db, f) ==
    LET P4 == {"rebase-apply/applying", "rebase-apply/rebasing",
               "rebase-apply", "rebase-merge"}
        P5 == P4 \cup {"BISECT_LOG"}
        P6 == P5 \cup {"MERGE_HEAD"}
        P7 == P6 \cup {"CHERRY_PICK_HEAD"}
        P8 == P7 \cup {"REVERT_HEAD"}
    IN
    IF is_dir(f, "rebase-merge")
    THEN LET b == RebaseInt_branch(db, f)
             st == RebaseInt_status(f)
         IN  IF b.panic THEN ModePanicked(P4 \cup b.probed)
             ELSE ModeReturned(Some(RebaseInt(b.val, st.val)),
                               P4 \cup b.probed \cup st.probed)
    ELSE IF is_file(f, "BISECT_LOG")
    THEN LET start == read_to_string(f, "BISECT_START")
         IN  ModeReturned(
                 Some(Bisect(IF start = Err THEN None
                             ELSE Some(trim_in_place(unwrap(start))))),
                 P5 \cup {"BISECT_START"})
    ELSE IF read_to_string(f, "MERGE_HEAD") /= Err
    THEN Marker(db, unwrap(read_to_string(f, "MERGE_HEAD")), "Merge", P6)
    ELSE IF read_to_string(f, "CHERRY_PICK_HEAD") /= Err
    THEN Marker(db, unwrap(read_to_string(f, "CHERRY_PICK_HEAD")), "CherryPick", P7)
    ELSE IF read_to_string(f, "REVERT_HEAD") /= Err
    THEN Marker(db, unwrap(read_to_string(f, "REVERT_HEAD")), "Revert", P8)
    ELSE ModeReturned(None, P8)

\* fault model for C1: MERGE_HEAD looked at before the rebase-apply markers
Mode_new_mergeFirst(db, f) ==
    IF read_to_string(f, "MERGE_HEAD") /= Err
    THEN Marker(db, unwrap(read_to_string(f, "MERGE_HEAD")), "Merge", {"MERGE_HEAD"})
    ELSE IF is_file(f, "rebase-apply/applying")
    THEN ModeReturned(Some(ApplyMailbox), {"rebase-apply/applying"})
    ELSE IF is_file(f, "rebase-apply/rebasing")
    THEN ModeReturned(Some(Rebase),
                      {"rebase-apply/applying", "rebase-apply/rebasing"})
    ELSE IF is_dir(f, "rebase-apply")
    THEN ModeReturned(Some(AmRbs),
                      {"rebase-apply/applying", "rebase-apply/rebasing",
                       "rebase-apply"})
    ELSE Mode_tail(db, f)

Mode_new(db, f) ==
    IF is_file(f, "rebase-apply/applying")
    THEN ModeReturned(Some(ApplyMailbox), {"rebase-apply/applying"})
    ELSE IF is_file(f, "rebase-apply/rebasing")
    THEN ModeReturned(Some(Rebase),
                      {"rebase-apply/applying", "rebase-apply/rebasing"})
    ELSE IF is_dir(f, "rebase-apply")
    THEN ModeReturned(Some(AmRbs),
                      {"rebase-apply/applying", "rebase-apply/rebasing",
                       "rebase-apply"})
    ELSE Mode_tail(db, f)

\* if let Some(x) = .. { write!(f, " {x}")?; }
OptHead_fmt(o) == IF IsSome(o) THEN <<" ">> \o Head_fmt(unwrap(o)) ELSE <<>>
OptStatus_fmt(o) == IF IsSome(o) THEN <<" ">> \o Status_fmt(unwrap(o)) ELSE <<>>
OptString_fmt(o) == IF IsSome(o) THEN <<" ">> \o unwrap(o) ELSE <<>>

Mode_fmt(m) ==
    CASE m.tag = "ApplyMailbox" -> <<"a","m">>
      [] m.tag = "Rebase" -> <<"r","b","s">>
      [] m.tag = "AmRbs" -> <<"a","m","/","r","b","s">>
      [] m.tag = "RebaseInt" ->
            <<"r","b","s">> \o OptHead_fmt(m.head) \o OptStatus_fmt(m.status)
      [] m.tag = "Bisect" -> <<"b","s","c">> \o OptString_fmt(m.start)
      [] m.tag = "Merge" -> <<"m","r","g"," ",":">> \o m.hash
      [] m.tag = "CherryPick" -> <<"c","h","p"," ",":">> \o m.hash
      [] m.tag = "Revert" -> <<"r","v","t"," ",":">> \o m.hash

---------------------------------------------------------------------------
(* Start, Dir, User: the rest of the prompt *)

Start_new(u) == IF u = <<"r","o","o","t">> THEN "Root" ELSE "User"

Start_fmt(st) == IF st = "Root" THEN <<"#">> ELSE <<"$">>

\* Path::file_name: the last component, None for the root directory
RECURSIVE file_name(_)
file_name(path) ==
    IF path = <<>> \/ path = <<"/">> THEN None
    ELSE IF \A i \in 1..Len(path) : path[i] /= "/" THEN Some(path)
    ELSE file_name(Tail(path))

Dir_fmt(d) == IF IsSome(file_name(d)) THEN unwrap(file_name(d)) ELSE d

User_fmt(u) == u

\* main, lines 264-268: ret is what git() returned
main_print(u, d, ret) ==
    IF ret /= Err
    THEN Start_fmt(Start_new(u)) \o <<" ">> \o User_fmt(u) \o <<" ">>
             \o Dir_fmt(d) \o <<" ">> \o unwrap(ret) \o <<" ",">",">"," ">>
    ELSE Start_fmt(Start_new(u)) \o <<" ">> \o User_fmt(u) \o <<" ">>
             \o Dir_fmt(d) \o <<" ",">",">"," ">>

---------------------------------------------------------------------------
(* The inputs of a run *)

\* root in the root directory, a user in a project directory
Envs ==
    { [usr |-> <<"r","o","o","t">>, cwd |-> <<"/">>],
      [usr |-> <<"m","a","y">>, cwd |-> <<"/","w","/","p">>] }

Objects == { <<"a","a","b">>, <<"a","b","a">>, <<"b","b","a">> }

HEADs ==
    { Unreadable_HEAD,
      Symbolic(refs_heads \o <<"m","a","i","n">>),
      Detached(<<"a","a","b">>),
      Detached(<<"b","b","b">>) }

HeadNames ==
    { refs_heads \o <<"f","t"," ","\n">>,
      <<"d","e","t","a","c","h","e","d"," ","H","E","A","D","\n">> }
RefTexts == { <<"a","b","a","\n">>, <<"b","b","b","\n">> }
Counters == { <<"2","\n">> }
Ends == { <<"5","\n">> }
Starts == { <<"m","a","i","n","\n">> }

StatKinds == {Absent, NoAccess, Unreadable, File(<<>>)}
DirKinds == {Absent, NoAccess, Directory}
ReadKinds(T) == {Absent, Unreadable} \cup { File(t) : t \in T }

ApplyStates ==
    { [p \in {"rebase-apply", "rebase-apply/applying", "rebase-apply/rebasing"}
         |-> CASE p = "rebase-apply" -> d
               [] p = "rebase-apply/applying" -> a
               [] OTHER -> r]
      : d \in DirKinds, a \in StatKinds, r \in StatKinds }

RebaseStates ==
    { [p \in {"rebase-merge", "rebase-merge/head-name", "rebase-merge/orig-head",
              "rebase-merge/msgnum", "rebase-merge/end"}
         |-> CASE p = "rebase-merge" -> d
               [] p = "rebase-merge/head-name" -> h
               [] p = "rebase-merge/orig-head" -> o
               [] p = "rebase-merge/msgnum" -> n
               [] OTHER -> e]
      : d \in DirKinds, h \in ReadKinds(HeadNames), o \in ReadKinds(RefTexts),
        n \in ReadKinds(Counters), e \in ReadKinds(Ends) }

BisectStates ==
    { [p \in {"BISECT_LOG", "BISECT_START"}
         |-> IF p = "BISECT_LOG" THEN l ELSE st]
      : l \in StatKinds, st \in ReadKinds(Starts) }

MarkerStates(path) == { [p \in {path} |-> m] : m \in ReadKinds(RefTexts) }

Groups == {"apply", "rebase", "bisect", "merge", "cherry", "revert"}

\* the entries of a directory exist only when the directory does
GroupStates(g) ==
    CASE g = "apply" ->
           { x \in ApplyStates : x["rebase-apply"] /= Directory =>
                 /\ x["rebase-apply/applying"] = Absent
                 /\ x["rebase-apply/rebasing"] = Absent }
      [] g = "rebase" ->
           { x \in RebaseStates : x["rebase-merge"] /= Directory =>
                 \A p \in DOMAIN x : p /= "rebase-merge" => x[p] = Absent }
      [] g = "bisect" -> BisectStates
      [] g = "merge" -> MarkerStates("MERGE_HEAD")
      [] g = "cherry" -> MarkerStates("CHERRY_PICK_HEAD")
      [] g = "revert" -> MarkerStates("REVERT_HEAD")

Empty(x) == \A p \in DOMAIN x : x[p] = Absent

Pick(g, A) ==
    IF g \in A THEN { x \in GroupStates(g) : ~Empty(x) }
    ELSE { x \in GroupStates(g) : Empty(x) }

Paths ==
    {"rebase-apply", "rebase-apply/applying", "rebase-apply/rebasing",
     "rebase-merge", "rebase-merge/head-name", "rebase-merge/orig-head",
     "rebase-merge/msgnum", "rebase-merge/end", "BISECT_LOG", "BISECT_START",
     "MERGE_HEAD", "CHERRY_PICK_HEAD", "REVERT_HEAD"}

NoEntries == [p \in Paths |-> Absent]

NotCalled == [panic |-> FALSE, val |-> None]
ModeNotCalled == [panic |-> FALSE, val |-> None, probed |-> {}]

---------------------------------------------------------------------------
(* One run of the program *)

Init ==
    /\ pc = "main"
    /\ repo \in BOOLEAN
    /\ IF repo
       THEN /\ HEAD \in HEADs
            /\ \E A \in { S \in SUBSET Groups : Cardinality(S) <= MaxActive } :
                 \E a \in Pick("apply", A), r \in Pick("rebase", A),
                    b \in Pick("bisect", A), m \in Pick("merge", A),
                    c \in Pick("cherry", A), v \in Pick("revert", A) :
                      fs = a @@ r @@ b @@ m @@ c @@ v
       ELSE /\ HEAD = Unreadable_HEAD
            /\ fs = NoEntries
    /\ odb = Objects
    /\ usr = <<>>
    /\ cwd = <<>>
    /\ branch = None
    /\ mode = ModeNotCalled
    /\ string = <<>>
    /\ stdout = <<>>
    /\ exit = "running"
    /\ text = <<>>
    /\ first = NotCalled
    /\ second = NotCalled

\* main, lines 260-262: User::current, Start::new, Dir::cwd
MainEnv ==
    /\ pc = "main"
    /\ \E e \in Envs :
         /\ usr' = e.usr
         /\ cwd' = e.cwd
    /\ pc' = "git"
    /\ UNCHANGED <<repo, HEAD, fs, odb, branch, mode, string, stdout, exit,
                   text, first, second>>

\* fault model for C8: a failed discovery panics (unwrap for ?)
Discover_unwrap ==
    /\ pc = "git"
    /\ pc' = IF repo THEN "head" ELSE "panicked"
    /\ exit' = IF repo THEN exit ELSE "panic"
    /\ UNCHANGED <<repo, HEAD, fs, odb, usr, cwd, branch, mode, string, stdout,
                   text, first, second>>

\* git, line 185: gix::discover(".")?
Discover ==
    /\ pc = "git"
    /\ pc' = IF repo THEN "head" ELSE "ret_err"
    /\ UNCHANGED <<repo, HEAD, fs, odb, usr, cwd, branch, mode, string, stdout,
                   exit, text, first, second>>

\* git, line 186: Head::new(&repo)
HeadNew ==
    /\ pc = "head"
    /\ LET r == Head_new(odb, HEAD)
       IN  IF r.panic
           THEN /\ pc' = "panicked"
                /\ exit' = "panic"
                /\ UNCHANGED branch
           ELSE /\ pc' = "mode"
                /\ branch' = r.val
                /\ UNCHANGED exit
    /\ UNCHANGED <<repo, HEAD, fs, odb, usr, cwd, mode, string, stdout,
                   text, first, second>>

\* fault model for C6: a failure of Mode::new comes back as Err from git
\* (? for unwrap)
ModeNew_propagate ==
    /\ pc = "mode"
    /\ mode' = Mode_new(odb, fs)
    /\ IF mode'.panic
       THEN /\ pc' = "ret_err"
            /\ string' = <<"(">>
       ELSE /\ pc' = "tail"
            /\ string' = IF IsSome(unwrap(mode'.val))
                         THEN <<"(">> \o Mode_fmt(unwrap(unwrap(mode'.val))) \o <<" ">>
                         ELSE <<"(">>
    /\ UNCHANGED <<repo, HEAD, fs, odb, usr, cwd, branch, stdout, exit,
                   text, first, second>>

\* git, lines 188-194: the "(" and, when Mode::new gives a mode, the mode
ModeNew ==
    /\ pc = "mode"
    /\ mode' = Mode_new(odb, fs)
    /\ IF mode'.panic
       THEN /\ pc' = "panicked"
            /\ exit' = "panic"
            /\ string' = <<"(">>
       ELSE /\ pc' = "tail"
            /\ UNCHANGED exit
            /\ string' = IF IsSome(unwrap(mode'.val))
                         THEN <<"(">> \o Mode_fmt(unwrap(unwrap(mode'.val))) \o <<" ">>
                         ELSE <<"(">>
    /\ UNCHANGED <<repo, HEAD, fs, odb, usr, cwd, branch, stdout,
                   text, first, second>>

\* git, lines 196-197: the head, the ")", Ok(string)
WriteHead ==
    /\ pc = "tail"
    /\ string' = string \o Head_fmt(unwrap(branch)) \o <<")">>
    /\ pc' = "ret_ok"
    /\ UNCHANGED <<repo, HEAD, fs, odb, usr, cwd, branch, mode, stdout, exit,
                   text, first, second>>

\* main, lines 264-269
MainPrint ==
    /\ pc \in {"ret_ok", "ret_err"}
    /\ stdout' = main_print(usr, cwd, IF pc = "ret_ok" THEN Ok(string) ELSE Err)
    /\ pc' = "done"
    /\ exit' = "success"
    /\ UNCHANGED <<repo, HEAD, fs, odb, usr, cwd, branch, mode, string,
                   text, first, second>>

Next == MainEnv \/ Discover \/ HeadNew \/ ModeNew \/ WriteHead \/ MainPrint

Spec == Init /\ [][Next]_vars

---------------------------------------------------------------------------
(* hash on its own: any small object database, any reference text *)

\* at most this many objects in the database
MaxObjects == 3

Hex1 == { <<x>> : x \in HexChars }
Hex2 == { <<x, y>> : x \in HexChars, y \in HexChars }
HexTexts == Hex1 \cup Hex2 \cup Ids

Texts ==
    {<<>>, <<"\n">>} \cup HexTexts \cup { t \o <<"\n">> : t \in HexTexts }
        \cup { <<" ">> \o t \o <<" ", "\n">> : t \in HexTexts }

InitHash ==
    /\ pc = "hash"
    /\ odb \in { S \in SUBSET Ids : Cardinality(S) <= MaxObjects }
    /\ text \in Texts
    /\ first = NotCalled
    /\ second = NotCalled
    /\ repo = TRUE
    /\ HEAD = Unreadable_HEAD
    /\ fs = NoEntries
    /\ usr = <<>>
    /\ cwd = <<>>
    /\ branch = None
    /\ mode = ModeNotCalled
    /\ string = <<>>
    /\ stdout = <<>>
    /\ exit = "running"

\* hash(repo, text)
HashFirst ==
    /\ pc = "hash"
    /\ first' = hash(odb, text)
    /\ pc' = IF first'.panic THEN "panicked" ELSE "again"
    /\ exit' = IF first'.panic THEN "panic" ELSE exit
    /\ UNCHANGED <<repo, HEAD, fs, odb, usr, cwd, branch, mode, string, stdout,
                   text, second>>

\* hash(repo, <the prefix the first call returned>)
HashSecond ==
    /\ pc = "again"
    /\ second' = hash(odb, unwrap(first.val))
    /\ pc' = IF second'.panic THEN "panicked" ELSE "hashed"
    /\ exit' = IF second'.panic THEN "panic" ELSE exit
    /\ UNCHANGED <<repo, HEAD, fs, odb, usr, cwd, branch, mode, string, stdout,
                   text, first>>

NextHash == HashFirst \/ HashSecond

SpecHash == InitHash /\ [][NextHash]_vars

---------------------------------------------------------------------------
(* The detection sequence as the specification's table states it *)

MarkerPath ==
    <<"rebase-apply/applying", "rebase-apply/rebasing", "rebase-apply",
      "rebase-merge", "BISECT_LOG", "MERGE_HEAD", "CHERRY_PICK_HEAD",
      "REVERT_HEAD">>

Variants ==
    <<"ApplyMailbox", "Rebase", "AmRbs", "RebaseInt", "Bisect", "Merge",
      "CherryPick", "Revert">>

Checks == DOMAIN MarkerPath

\* checks 1, 2 and 5 ask for a regular file, 3 and 4 for a directory,
\* 6 to 8 read the file
Holds(i) ==
    LET k == fs[MarkerPath[i]].kind
    IN  IF i \in {1, 2, 5} THEN k \in {"file", "unreadable"}
        ELSE IF i \in {3, 4} THEN k = "dir"
        ELSE k = "file"

FirstHolds(i) == Holds(i) /\ \A j \in Checks : j < i => ~Holds(j)

\* Mode::new has been called / has returned
Detected == mode.probed /= {}
DetectReturned == Detected /\ ~mode.panic

ModeTag ==
    IF mode.panic \/ ~IsSome(mode.val) THEN "-"
    ELSE IF IsSome(unwrap(mode.val)) THEN unwrap(unwrap(mode.val)).tag
    ELSE "none"

TheMode == unwrap(unwrap(mode.val))

\* the content of a file resolves to exactly one object
Resolves(p) == Cardinality(Matching(odb, trim(fs[p].text))) = 1

---------------------------------------------------------------------------
(* C1 *)

\* C1: when Mode::new returns, it returns the variant of the first check of
\* the fixed order whose condition holds, and None exactly when no check
\* holds; a rebase-apply/applying file wins over everything else, a
\* MERGE_HEAD of any content included.
C1_FirstMatchWins ==
    /\ DetectReturned =>
         /\ \A i \in Checks : FirstHolds(i) => ModeTag = Variants[i]
         /\ (ModeTag = "none") <=> (\A i \in Checks : ~Holds(i))
    /\ (Detected /\ Holds(1)) => (~mode.panic /\ ModeTag = "ApplyMailbox")

C1_Witness ==
    /\ pc = "done"
    /\ fs["rebase-apply/applying"].kind = "file"
    /\ fs["MERGE_HEAD"].kind = "file"
    /\ ModeTag = "ApplyMailbox"
---------------------------------------------------------------------------
(* C2 *)

\* C2: when the first check that holds is MERGE_HEAD, CHERRY_PICK_HEAD or
\* REVERT_HEAD and the content read does not resolve to exactly one object,
\* Mode::new panics: the run ends there with nothing printed, no later
\* marker is looked at and no mode is returned.
C2_MalformedMarkerIsFatal ==
    \A i \in {6, 7, 8} :
        (Detected /\ FirstHolds(i) /\ ~Resolves(MarkerPath[i])) =>
            /\ mode.panic
            /\ pc = "panicked"
            /\ exit = "panic"
            /\ stdout = <<>>
            /\ \A j \in Checks : j > i => MarkerPath[j] \notin mode.probed

C2_Witness ==
    /\ pc = "panicked"
    /\ mode.panic
    /\ FirstHolds(6)
    /\ ~Resolves("MERGE_HEAD")
    /\ fs["CHERRY_PICK_HEAD"].kind = "file"
    /\ Resolves("CHERRY_PICK_HEAD")
---------------------------------------------------------------------------
(* C3 *)

\* the probe of check i fails: the stat of checks 1 to 5 fails or finds
\* nothing of the kind asked for, the read of checks 6 to 8 fails
ProbeFails(i) ==
    LET k == fs[MarkerPath[i]].kind
    IN  IF i \in {1, 2, 3, 4, 5} THEN k \in {"absent", "noaccess"}
        ELSE k \in {"absent", "noaccess", "unreadable"}

\* a file whose content was read and does not resolve
MalformedRead ==
    \E p \in mode.probed : fs[p].kind = "file" /\ ~Resolves(p)

\* C3 (as the claim states it): for every check, a marker that is absent or
\* that cannot be read makes the check false.
C3_Original ==
    DetectReturned =>
        \A i \in Checks :
            fs[MarkerPath[i]].kind \in {"absent", "noaccess", "unreadable"}
                => ModeTag /= Variants[i]

\* C3 (amended): a marker that is absent, or whose probe fails (the stat of
\* checks 1 to 5, the read of checks 6 to 8), makes its check false and the
\* next check is evaluated; Mode::new panics only on a file it read whose
\* content does not resolve, never on an absent or unreadable one; but
\* checks 1, 2 and 5 only stat their marker, so a file that exists and
\* cannot be read still makes them true.
C3_AbsentOrFailedProbeContinues ==
    /\ DetectReturned =>
         \A i \in Checks :
             /\ ProbeFails(i) => ModeTag /= Variants[i]
             /\ (ProbeFails(i) /\ MarkerPath[i] \in mode.probed /\ i < 8)
                    => MarkerPath[i + 1] \in mode.probed
             /\ (i \in {1, 2, 5} /\ fs[MarkerPath[i]].kind = "unreadable"
                    /\ \A j \in Checks : j < i => ~Holds(j))
                    => ModeTag = Variants[i]
    /\ (Detected /\ mode.panic) => MalformedRead

C3_Witness ==
    /\ pc = "done"
    /\ fs["MERGE_HEAD"].kind = "unreadable"
    /\ fs["CHERRY_PICK_HEAD"].kind = "file"
    /\ "CHERRY_PICK_HEAD" \in mode.probed
    /\ ModeTag = "CherryPick"
---------------------------------------------------------------------------
(* C4 *)

InRebaseInt == DetectReturned /\ ModeTag = "RebaseInt"

HeadNameReadable == fs["rebase-merge/head-name"].kind = "file"
HeadNameIsBranch ==
    HeadNameReadable /\ starts_with(fs["rebase-merge/head-name"].text, refs_heads)
OrigHeadReadable == fs["rebase-merge/orig-head"].kind = "file"

\* C4 (as the claim states it): the head is the branch of head-name whenever
\* head-name is readable, orig-head is consulted only if head-name is
\* unreadable, and the head is absent exactly when neither file is readable.
C4_Original ==
    InRebaseInt =>
        /\ HeadNameReadable =>
               TheMode.head = Some(Branch(trim_end(
                   name_shorten(fs["rebase-merge/head-name"].text))))
        /\ "rebase-merge/orig-head" \in mode.probed => ~HeadNameReadable
        /\ (TheMode.head = None) <=> (~HeadNameReadable /\ ~OrigHeadReadable)

\* C4 (amended): the head is Branch(head-name without refs/heads/, trailing
\* whitespace trimmed) whenever head-name is readable and starts with
\* refs/heads/; orig-head is consulted exactly when head-name is unreadable
\* or does not start with refs/heads/ (git writes "detached HEAD" there), and
\* then the head is the detached commit orig-head resolves to (a panic if it
\* does not resolve); the head is absent exactly when head-name is unreadable
\* or unprefixed and orig-head is unreadable.
C4_RebaseIntHead ==
    (Detected /\ FirstHolds(4)) =>
        /\ HeadNameIsBranch =>
             /\ ~mode.panic
             /\ IsSome(TheMode.head)
             /\ unwrap(TheMode.head).tag = "Branch"
             /\ refs_heads \o unwrap(TheMode.head).s
                    = trim_end(fs["rebase-merge/head-name"].text)
             /\ "rebase-merge/orig-head" \notin mode.probed
        /\ ~HeadNameIsBranch => "rebase-merge/orig-head" \in mode.probed
        /\ (~HeadNameIsBranch /\ OrigHeadReadable) =>
             IF Resolves("rebase-merge/orig-head")
             THEN /\ ~mode.panic
                  /\ IsSome(TheMode.head)
                  /\ unwrap(TheMode.head).tag = "Commit"
                  /\ Matching(odb, unwrap(TheMode.head).s)
                       = Matching(odb, trim(fs["rebase-merge/orig-head"].text))
             ELSE mode.panic
        /\ ~mode.panic =>
             ((TheMode.head = None) <=> (~HeadNameIsBranch /\ ~OrigHeadReadable))

C4_Witness ==
    /\ pc = "done"
    /\ InRebaseInt
    /\ HeadNameReadable
    /\ ~HeadNameIsBranch
    /\ TheMode.head = Some(Commit(<<"a","b">>))
---------------------------------------------------------------------------
(* C5 *)

MsgnumReadable == fs["rebase-merge/msgnum"].kind = "file"
EndReadable == fs["rebase-merge/end"].kind = "file"

\* C5: in the interactive-rebase case the progress is present if and only if
\* both msgnum and end are readable, and a present progress holds both
\* counters, each the content of its file without trailing whitespace.
C5_ProgressNeedsBoth ==
    InRebaseInt =>
        /\ IsSome(TheMode.status) <=> (MsgnumReadable /\ EndReadable)
        /\ IsSome(TheMode.status) =>
             /\ DOMAIN unwrap(TheMode.status) = {"num", "end"}
             /\ unwrap(TheMode.status).num
                    = trim_end(fs["rebase-merge/msgnum"].text)
             /\ unwrap(TheMode.status).end
                    = trim_end(fs["rebase-merge/end"].text)
             /\ unwrap(TheMode.status).num /= <<>>
             /\ unwrap(TheMode.status).end /= <<>>

C5_Witness ==
    /\ pc = "done"
    /\ InRebaseInt
    /\ MsgnumReadable
    /\ ~EndReadable
    /\ TheMode.status = None
---------------------------------------------------------------------------
(* C6 *)

\* the prompt without a git segment, for the users and directories of Envs
BarePrompt ==
    (IF usr = <<"r","o","o","t">> THEN <<"#">> ELSE <<"$">>)
        \o <<" ">> \o usr \o <<" ">>
        \o (IF cwd = <<"/">> THEN <<"/">> ELSE <<"p">>)
        \o <<" ", ">", ">", " ">>

\* a panic in Head::new or in Mode::new
FatalError == repo /\ pc = "panicked"

\* C6 (as the claim states it): after a fatal error in head resolution or
\* state detection the run still ends with the prompt printed, without the
\* git segment.
C6_Original ==
    (FatalError /\ ~ENABLED Next) => stdout = BarePrompt

\* C6 (amended): a fatal error in head resolution or state detection is a
\* panic that ends the process: nothing is printed at all, neither a partial
\* git segment nor the rest of the prompt, and the exit status is that of a
\* panic; whatever is printed is printed by a run without a fatal error, and
\* with a repository it holds the complete segment.
C6_FatalErrorPrintsNothing ==
    /\ FatalError =>
         /\ stdout = <<>>
         /\ exit = "panic"
         /\ ~ENABLED Next
    /\ (Detected /\ mode.panic) => FatalError
    /\ stdout /= <<>> =>
         /\ pc = "done"
         /\ exit = "success"
         /\ ~mode.panic
         /\ repo => /\ IsSome(branch)
                    /\ Detected
                    /\ string /= <<>>
                    /\ string[Len(string)] = ")"
                    /\ \E i \in 1..Len(stdout) :
                         SubSeq(stdout, i, i + Len(string) - 1) = string

C6_Witness ==
    /\ FatalError
    /\ mode.panic
    /\ string = <<"(">>
    /\ stdout = <<>>

---------------------------------------------------------------------------
(* C7 *)

\* Head::new has been called
HeadCalled == repo /\ pc \notin {"main", "git", "head"}
HeadPanicked == HeadCalled /\ pc = "panicked" /\ ~Detected

\* C7 (as the claim states it): Head::new fails only if HEAD cannot be read.
C7_Original ==
    HeadPanicked => HEAD.kind = "unreadable"

\* C7 (amended): for a symbolic HEAD, Head::new gives Branch(the name without
\* refs/heads/); for a detached HEAD whose commit is in the object database,
\* Commit(a prefix of the id that only this object has); it panics, ending
\* the run before any marker is looked at and with nothing printed, exactly
\* when HEAD cannot be read or when HEAD is detached at an id that the object
\* database cannot shorten (the object is missing).
C7_HeadNew ==
    HeadCalled =>
        /\ HEAD.kind = "symbolic" =>
             /\ IsSome(branch)
             /\ unwrap(branch).tag = "Branch"
             /\ refs_heads \o unwrap(branch).s = HEAD.name
        /\ (HEAD.kind = "detached" /\ HEAD.id \in odb) =>
             /\ IsSome(branch)
             /\ unwrap(branch).tag = "Commit"
             /\ Matching(odb, unwrap(branch).s) = {HEAD.id}
        /\ HeadPanicked <=>
             \/ HEAD.kind = "unreadable"
             \/ (HEAD.kind = "detached" /\ HEAD.id \notin odb)
        /\ HeadPanicked =>
             /\ branch = None
             /\ mode = ModeNotCalled
             /\ stdout = <<>>
             /\ exit = "panic"

C7_Witness ==
    /\ HeadPanicked
    /\ HEAD.kind = "detached"
    /\ HEAD.id \notin odb
    /\ fs["MERGE_HEAD"].kind = "file"
---------------------------------------------------------------------------
(* C8 *)

\* C8: without a repository the run never panics and prints the start sign,
\* the user, the directory and ">> " and nothing of a git segment, and the
\* process exits successfully.
C8_NoRepository ==
    ~repo =>
        /\ pc /= "panicked"
        /\ pc \notin {"head", "mode", "tail", "ret_ok"}
        /\ string = <<>>
        /\ pc = "done" =>
             /\ stdout = BarePrompt
             /\ exit = "success"
             /\ \A i \in 1..Len(stdout) : stdout[i] \notin {"(", ")"}

C8_Witness ==
    /\ ~repo
    /\ pc = "done"
    /\ exit = "success"
    /\ stdout = <<"$"," ","m","a","y"," ","p"," ",">",">"," ">>

---------------------------------------------------------------------------
(* C9 *)

HeadText(h) == IF h.tag = "Branch" THEN h.s ELSE <<":">> \o h.s

\* the tag of the claim's list for the mode returned
ExpectedTag ==
    LET m == TheMode
    IN  CASE ModeTag = "ApplyMailbox" -> <<"a","m">>
          [] ModeTag = "Rebase" -> <<"r","b","s">>
          [] ModeTag = "AmRbs" -> <<"a","m","/","r","b","s">>
          [] ModeTag = "RebaseInt" ->
               <<"r","b","s">>
                 \o (IF m.head = None THEN <<>>
                     ELSE <<" ">> \o HeadText(unwrap(m.head)))
                 \o (IF m.status = None THEN <<>>
                     ELSE <<" ">> \o unwrap(m.status).num \o <<"/">>
                              \o unwrap(m.status).end)
          [] ModeTag = "Bisect" ->
               <<"b","s","c">>
                 \o (IF m.start = None THEN <<>> ELSE <<" ">> \o unwrap(m.start))
          [] ModeTag = "Merge" -> <<"m","r","g"," ",":">> \o m.hash
          [] ModeTag = "CherryPick" -> <<"c","h","p"," ",":">> \o m.hash
          [] ModeTag = "Revert" -> <<"r","v","t"," ",":">> \o m.hash

TagPart == IF ModeTag = "none" THEN <<>> ELSE ExpectedTag \o <<" ">>

\* C9 (as the claim states it): the segment is the prefix, the tag and a
\* space if there is a mode, then the head.
C9_Original ==
    pc = "ret_ok" => string = <<"(">> \o TagPart \o HeadText(unwrap(branch))

\* C9 (amended): the segment is "(", then the tag of the mode followed by one
\* space if and only if Mode::new returned a mode, then the head, then ")";
\* the tag is the one of the claim's list for the variant, and a detached
\* head, the one of a rebase tag included, is ":" and the hash.
C9_Segment ==
    pc \in {"ret_ok", "done"} /\ repo =>
        string = <<"(">> \o TagPart \o HeadText(unwrap(branch)) \o <<")">>

C9_Witness ==
    /\ pc = "ret_ok"
    /\ ModeTag = "RebaseInt"
    /\ string = <<"(","r","b","s"," ",":","a","b"," ","2","/","5"," ",
                  ":","a","a",")">>
---------------------------------------------------------------------------
(* C10 *)

\* the reference text, trimmed, is the start of the id of exactly one object
TextResolves == Cardinality(Matching(odb, trim(text))) = 1
TheObject == CHOOSE x \in Matching(odb, trim(text)) : TRUE

\* C10: for a reference text that resolves to exactly one object, hash
\* returns a prefix of that object's id which no other object of the
\* database shares and of which no shorter prefix is unique; hash of that
\* prefix returns the same prefix, and the prefix resolves to the same object.
\* A text that does not resolve makes hash panic.
C10_ResolveIdempotent ==
    /\ (pc /= "hash" /\ ~TextResolves) => (first.panic /\ pc = "panicked")
    /\ (pc /= "hash" /\ TextResolves) =>
         /\ ~first.panic
         /\ unwrap(first.val) /= <<>>
         /\ starts_with(TheObject, unwrap(first.val))
         /\ Matching(odb, unwrap(first.val)) = {TheObject}
         /\ \A k \in 1..(Len(unwrap(first.val)) - 1) :
                Matching(odb, SubSeq(unwrap(first.val), 1, k)) /= {TheObject}
         /\ pc /= "panicked"
    /\ pc = "hashed" =>
         /\ second = first
         /\ Matching(odb, trim(unwrap(second.val))) = {TheObject}

C10_Witness ==
    /\ pc = "hashed"
    /\ Cardinality(odb) = 3
    /\ text = <<" ", "a", "b", "a", " ", "\n">>
    /\ first.val = Some(<<"a", "b">>)
    /\ second.val = Some(<<"a", "b">>)

===========================================================================
